---- MODULE Spec2Model ----
(***************************************************************************)
(* Test execution simulator of backend/agents/test_execution.py            *)
(* (TestExecutionAgent), message router of backend/framework/              *)
(* communication.py (MessageRouter) and agent monitor of backend/framework/*)
(* agent_monitor.py (AgentMonitor).  The three objects share no state;     *)
(* each specification below drives one of them and leaves the others in    *)
(* their initial state.                                                    *)
(*                                                                         *)
(* The agent is one shared object; every call of execute_single_test or    *)
(* execute_test_suite is a task.  A task runs without interruption up to   *)
(* the step delay (test_execution.py:400), the one place where the driving *)
(* coroutine waits; there other tasks and cancel_execution may run.  An    *)
(* action of this module is therefore the code between two step delays.    *)
(* Execution ids are taken to be unique (test_execution.py:283).           *)
(***************************************************************************)
EXTENDS Integers, Sequences, FiniteSets, TLC

VARIABLES
    executions,         \* every TestExecution object ever created, by id
    active_executions,  \* keys of self.active_executions
    execution_queue,    \* self.execution_queue
    execution_history,  \* self.execution_history (references, by id)
    tasks,              \* suspended driving tasks: [cur, todo]
    reply,              \* return value of the latest cancel_execution call
    cancels,            \* cancel_execution calls that found their execution
    failures,           \* step failure draws that came out true
    raised,             \* executions whose driving task ended by an exception
    healing,            \* the latest call of _attempt_auto_healing
    now,                \* the reading of datetime.now()
    delivery_handlers,      \* MessageRouter: agents with a delivery handler
    subscription_patterns,  \* MessageRouter: pattern -> list of agents
    message_history,        \* MessageRouter: list of messages
    delivery_stats,         \* MessageRouter: the four counters
    sent,                   \* what the latest send or broadcast call did
    calls,                  \* send_message calls made, and those returning true
    agent_states,           \* AgentMonitor: agent -> state
    agent_metrics,          \* AgentMonitor: agent -> message counters
    agent_relationships,    \* AgentMonitor: agent -> set of peers
    message_flows,          \* AgentMonitor: deque of message flows
    activity_history,       \* AgentMonitor: deque of activities
    timers,                 \* AgentMonitor: started threading.Timer objects
    snapshot,               \* AgentMonitor: what get_real_time_state returned
    thread                  \* AgentMonitor: the thread that ran last

agentVars == <<executions, active_executions, execution_queue,
               execution_history, tasks, reply, cancels, failures, raised,
               healing>>

routerVars == <<delivery_handlers, subscription_patterns, message_history,
                delivery_stats, sent, calls>>

monitorVars == <<agent_states, agent_metrics, agent_relationships,
                 message_flows, activity_history, timers, snapshot, thread>>

vars == <<agentVars, now, routerVars, monitorVars>>

----------------------------------------------------------------------------
(* Bounds of the model *)

MaxExecs == 3       \* executions created in one behaviour of Spec
MaxFailures == 1    \* failing step draws in one behaviour
MaxCancels == 1     \* successful cancel_execution calls in one behaviour
MaxSuite == 4       \* test cases of the suite of SuiteSpec
MaxAdmitted == 4    \* executions created in one behaviour of AdmissionSpec
MaxStepFailures == 2 \* failing step draws in one behaviour of SingleSpec
MaxTime == 3        \* latest clock reading
MaxSends == 3       \* send_message calls in one behaviour
MaxCopies == 2      \* copies sent by broadcasts in one behaviour
MaxLogged == 2      \* messages an agent logs as sent, or as received
MaxTimers == 1      \* monitor timers pending at one time
MaxErrorCount == 1  \* errors logged for one agent in one behaviour
MaxActivities == 4  \* activities logged in one behaviour of MonitorSpec
MaxSnapshots == 2   \* get_real_time_state calls without activity between
MaxRecent == 22     \* messages logged in one behaviour of SnapshotSpec
MaxStarts == 2      \* activities before which SnapshotSpec logs a start

(* Program constants *)

max_concurrent_executions == 3

\* transaction codes submitted: one without template and profile
TransactionInputs == {"ZZ99"}

\* error patterns the weighted draw of _generate_step_error may select
PatternDraws == {"approval_timeout"}

\* agents known to the router and the monitor
AgentIds == {"test_generation", "test_execution", "script_generation"}

\* subscription patterns: everything, and a part of a payload type
PatternInputs == {<<"*">>, <<"test">>}

\* payload.get("type", ""): no type, and a type the pattern "test" is in
PayloadTypes == {<<>>, <<"test", "_", "result">>}

\* expires_at of the messages sent: none, a time without and with UTC
\* offset, and a text that is no time
ExpiryInputs ==
    {[kind |-> "None", time |-> 0], [kind |-> "naive", time |-> 2],
     [kind |-> "aware", time |-> 2], [kind |-> "invalid", time |-> 0]}

\* messages passed to send_message
SendInputs ==
    [from_agent : {"test_generation"},
     to_agent : {"test_execution", "script_generation"},
     message_type : {"request"}, payload_type : {<<>>},
     expires_at : ExpiryInputs]

\* messages passed to broadcast_message
BroadcastInputs ==
    [from_agent : {"test_generation", "test_execution"}, to_agent : {"all"},
     message_type : {"request"}, payload_type : PayloadTypes,
     expires_at : {[kind |-> "None", time |-> 0]}]

----------------------------------------------------------------------------
(* Static knowledge *)

base_steps == <<"Login to SAP system", "Navigate to transaction",
                "Enter transaction data", "Validate input fields",
                "Save transaction", "Verify transaction completion">>

transaction_steps ==
    [ME21N |-> <<"Enter vendor information", "Add material line items",
                 "Set delivery details", "Check approval workflow",
                 "Generate purchase order number">>,
     MIGO  |-> <<"Reference purchase order", "Enter received quantities",
                 "Check quality inspection", "Post goods receipt",
                 "Generate material document">>,
     VA01  |-> <<"Enter customer information", "Add product line items",
                 "Check ATP availability", "Calculate pricing",
                 "Generate sales order number">>,
     FB60  |-> <<"Enter vendor invoice details", "Reference purchase order",
                 "Validate tax calculations", "Check approval limits",
                 "Post invoice document">>]

\* success rates in percent
error_patterns ==
    [approval_timeout |->
        <<[action |-> "retry_with_alternative_approver", success_rate |-> 85],
          [action |-> "extend_timeout_period", success_rate |-> 60],
          [action |-> "use_emergency_approval", success_rate |-> 95]>>,
     vendor_invalid |->
        <<[action |-> "suggest_alternative_vendor", success_rate |-> 90],
          [action |-> "unblock_vendor_temporarily", success_rate |-> 75],
          [action |-> "create_new_vendor_record", success_rate |-> 95]>>,
     material_not_found |->
        <<[action |-> "suggest_similar_material", success_rate |-> 80],
          [action |-> "create_material_master", success_rate |-> 90],
          [action |-> "use_material_substitution", success_rate |-> 70]>>,
     authorization_missing |->
        <<[action |-> "assign_temporary_authorization", success_rate |-> 85],
          [action |-> "use_authorized_user", success_rate |-> 95],
          [action |-> "request_authorization_from_admin", success_rate |-> 70]>>,
     network_timeout |->
        <<[action |-> "retry_with_backoff", success_rate |-> 75],
          [action |-> "switch_to_backup_server", success_rate |-> 90],
          [action |-> "reduce_transaction_complexity", success_rate |-> 60]>>]

\* base_time in seconds, failure_rate in 1/10000
sap_transaction_complexity ==
    [ME21N |-> [base_time |-> 45, complexity |-> "medium", failure_rate |-> 1500],
     MIGO  |-> [base_time |-> 30, complexity |-> "low", failure_rate |-> 800],
     VA01  |-> [base_time |-> 60, complexity |-> "high", failure_rate |-> 2200],
     FB60  |-> [base_time |-> 40, complexity |-> "medium", failure_rate |-> 1200],
     ME28  |-> [base_time |-> 25, complexity |-> "low", failure_rate |-> 500],
     MIRO  |-> [base_time |-> 50, complexity |-> "high", failure_rate |-> 1800],
     VF01  |-> [base_time |-> 35, complexity |-> "medium", failure_rate |-> 1000],
     VL01N |-> [base_time |-> 55, complexity |-> "high", failure_rate |-> 2000]]

critical_steps == {"Enter transaction data", "Save transaction",
                   "Check approval workflow"}

\* the values random.random() can return, in 1/10000: the least and the most
RandomDraws == {0, 9999}

----------------------------------------------------------------------------
(* Data model *)

\* ExecutionStep as created by _generate_execution_steps (a time of 0
\* stands for None; duration_ms, screenshot and error tell whether the
\* field is set)
PendingStep == [status |-> "pending", start_time |-> 0, end_time |-> 0,
                duration_ms |-> FALSE, screenshot |-> FALSE,
                error |-> FALSE, details |-> "none"]

\* value of TestExecution.auto_healing when it is None
None == [success |-> FALSE, action |-> "None", pattern |-> "None"]

\* StepDescriptions without the remaining base steps of line 354
StepDescriptions_without_remaining(transaction) ==
    SubSeq(base_steps, 1, 2)
      \o (IF transaction \in DOMAIN transaction_steps
             THEN transaction_steps[transaction] ELSE <<>>)

\* the list of step descriptions for a transaction
StepDescriptions(transaction) ==
    SubSeq(base_steps, 1, 2)
      \o (IF transaction \in DOMAIN transaction_steps
             THEN transaction_steps[transaction] ELSE <<>>)
      \o SubSeq(base_steps, 3, 6)

_generate_execution_steps(transaction) ==
    [i \in 1..Len(StepDescriptions(transaction)) |-> PendingStep]

\* the profile _simulate_sap_execution runs a transaction with
complexity(transaction) ==
    IF transaction \in DOMAIN sap_transaction_complexity
    THEN sap_transaction_complexity[transaction]
    ELSE [base_time |-> 45, complexity |-> "medium", failure_rate |-> 1500]

\* _should_step_fail for the step of 0-based index step_index, given the
\* value r of random.random()
_should_step_fail(transaction, description, step_index, r) ==
    LET base_failure_rate ==
            IF transaction \in DOMAIN sap_transaction_complexity
            THEN sap_transaction_complexity[transaction].failure_rate
            ELSE 1500
        by_step == IF description \in critical_steps
                   THEN (base_failure_rate * 15) \div 10
                   ELSE (base_failure_rate * 5) \div 10
        failure_rate == IF step_index < 2 THEN (by_step * 2) \div 10
                        ELSE by_step
    IN  r < failure_rate

\* NewExecution counting one step too few
NewExecution_total_short(transaction) ==
    [transaction  |-> transaction,
     status       |-> "queued",
     result       |-> "None",
     ended        |-> FALSE,
     current_step |-> 0,
     total_steps  |-> Len(_generate_execution_steps(transaction)) - 1,
     steps        |-> _generate_execution_steps(transaction),
     auto_healing |-> None]

\* TestExecution as built by _create_test_execution
NewExecution(transaction) ==
    [transaction  |-> transaction,
     status       |-> "queued",
     result       |-> "None",
     ended        |-> FALSE,
     current_step |-> 0,
     total_steps  |-> Len(_generate_execution_steps(transaction)),
     steps        |-> _generate_execution_steps(transaction),
     auto_healing |-> None]

\* the four collections of the agent as one value
\* the collections of the agent as one value, with the clock reading and
\* the executions whose task has raised
State == [ex |-> executions, act |-> active_executions,
          q |-> execution_queue, hist |-> execution_history,
          now |-> now, raised |-> raised]

InSeq(x, s) == \E k \in 1..Len(s) : s[k] = x

\* list.remove(x): drops the first occurrence
RECURSIVE Remove(_, _)
Remove(s, x) ==
    IF s = <<>> THEN <<>>
    ELSE IF Head(s) = x THEN Tail(s)
    ELSE <<Head(s)>> \o Remove(Tail(s), x)

----------------------------------------------------------------------------
(* Auto-healing *)

\* insert a strategy into a list sorted by descending success rate,
\* after the entries of equal rate (sorted() is stable)
RECURSIVE InsertByRate(_, _)
InsertByRate(s, x) ==
    IF s = <<>> THEN <<x>>
    ELSE IF Head(s).success_rate >= x.success_rate
         THEN <<Head(s)>> \o InsertByRate(Tail(s), x)
         ELSE <<x>> \o s

RECURSIVE SortByRate(_)
SortByRate(s) ==
    IF s = <<>> THEN <<>>
    ELSE InsertByRate(SortByRate(SubSeq(s, 1, Len(s) - 1)), s[Len(s)])

\* sorted_strategies without the sort of line 530
sorted_strategies_unsorted(pattern) == error_patterns[pattern]

sorted_strategies(pattern) == SortByRate(error_patterns[pattern])

\* the strategies for which the loop of lines 532-553 makes a draw: those
\* up to the first whose draw succeeds
strategies_tried(pattern, draws) ==
    LET s == sorted_strategies(pattern)
        hits == {k \in 1..Len(s) : draws[k]}
    IN  IF hits # {}
        THEN SubSeq(s, 1, CHOOSE k \in hits : \A j \in hits : k <= j)
        ELSE s

\* draws[k]: the draw for the k-th strategy tried succeeds
_attempt_auto_healing(pattern, draws) ==
    LET s == sorted_strategies(pattern)
        hits == {k \in 1..Len(s) : draws[k]}
    IN  IF hits # {}
        THEN LET first == CHOOSE k \in hits : \A j \in hits : k <= j
             IN  [success |-> TRUE, action |-> s[first].action,
                  pattern |-> pattern]
        ELSE [success |-> FALSE, action |-> "manual_intervention_required",
              pattern |-> pattern]

\* every outcome of the draws of one healing attempt
AllDraws == [1..3 -> BOOLEAN]

\* the draws used where executions run side by side: none or all succeed
HealingDraws == {[k \in 1..3 |-> FALSE], [k \in 1..3 |-> TRUE]}

\* the draws of which at least one succeeds
HealedDraws == {d \in AllDraws : \E k \in 1..3 : d[k]}

----------------------------------------------------------------------------
(* Code between two step delays *)

\* _create_test_execution: the new object is stored in the active set
_create_test_execution(st, transaction) ==
    [st EXCEPT !.ex = Append(@, NewExecution(transaction)),
               !.act = @ \cup {Len(st.ex) + 1}]

\* BeginStep with current_time never read again after line 385
BeginStep_stale_time(st, id, i) ==
    [st EXCEPT !.ex[id].current_step = i,
               !.ex[id].steps[i].status = "running",
               !.ex[id].steps[i].start_time =
                   IF i = 1 THEN st.now ELSE st.ex[id].steps[1].start_time]

\* top of the step loop up to the delay: step i is marked running; its
\* start time is current_time, read at line 385 and again at line 432
BeginStep(st, id, i) ==
    [st EXCEPT !.ex[id].current_step = i,
               !.ex[id].steps[i].status = "running",
               !.ex[id].steps[i].start_time =
                   IF i = 1 THEN st.now ELSE st.ex[id].steps[i - 1].end_time]

\* _start_execution, and _simulate_sap_execution up to its first delay
_start_execution(st, id) ==
    BeginStep([st EXCEPT !.ex[id].status = "running",
                         !.ex[id].current_step = 1], id, 1)

\* _process_execution_queue: the popped id is looked up in the history
RECURSIVE _process_execution_queue(_)
_process_execution_queue(st) ==
    IF Cardinality(st.act) < max_concurrent_executions /\ st.q # <<>>
    THEN LET execution_id == Head(st.q)
             st1 == [st EXCEPT !.q = Tail(@)]
         IN  IF InSeq(execution_id, st1.hist)
             THEN [st  |-> _start_execution(
                              [st1 EXCEPT !.act = @ \cup {execution_id}],
                              execution_id),
                   cur |-> execution_id]
             ELSE _process_execution_queue(st1)
    ELSE [st |-> st, cur |-> 0]

\* the loop of execute_test_suite over the test cases not yet submitted,
\* up to the first execution that is started
RECURSIVE SuiteLoop(_, _)
SuiteLoop(st, test_cases) ==
    IF test_cases = <<>> THEN [st |-> st, run |-> {}]
    ELSE LET c == _create_test_execution(st, Head(test_cases))
             id == Len(c.ex)
         IN  IF Cardinality(c.act) >= max_concurrent_executions
             THEN SuiteLoop([c EXCEPT !.q = Append(@, id)], Tail(test_cases))
             ELSE [st  |-> _start_execution(c, id),
                   run |-> {[cur |-> id, todo |-> Tail(test_cases)]}]

\* StepOutcome leaving the result unset when healing is exhausted
StepOutcome_result_unset(st, id, i, should_fail, pattern, draws) ==
    IF should_fail /\ ~ _attempt_auto_healing(pattern, draws).success
    THEN [st EXCEPT !.ex[id].steps[i].status = "failed",
                    !.ex[id].steps[i].error = TRUE,
                    !.ex[id].steps[i].details = "error",
                    !.ex[id].status = "failed"]
    ELSE [st EXCEPT !.ex[id].steps[i].status = "passed",
                    !.ex[id].steps[i].error = @ \/ should_fail,
                    !.ex[id].steps[i].details =
                        IF should_fail THEN "healed" ELSE "success",
                    !.ex[id].steps[i].end_time = st.now,
                    !.ex[id].steps[i].duration_ms = TRUE,
                    !.ex[id].steps[i].screenshot = TRUE,
                    !.ex[id].auto_healing =
                        IF should_fail
                        THEN _attempt_auto_healing(pattern, draws) ELSE @]

\* StepOutcome leaving a healed step failed
StepOutcome_healed_stays_failed(st, id, i, should_fail, pattern, draws) ==
    IF should_fail
    THEN IF _attempt_auto_healing(pattern, draws).success
         THEN [st EXCEPT !.ex[id].steps[i].status = "failed",
                         !.ex[id].steps[i].error = TRUE,
                         !.ex[id].steps[i].details = "healed",
                         !.ex[id].steps[i].end_time = st.now,
                         !.ex[id].steps[i].duration_ms = TRUE,
                         !.ex[id].steps[i].screenshot = TRUE,
                         !.ex[id].auto_healing =
                             _attempt_auto_healing(pattern, draws)]
         ELSE [st EXCEPT !.ex[id].steps[i].status = "failed",
                         !.ex[id].steps[i].error = TRUE,
                         !.ex[id].steps[i].details = "error",
                         !.ex[id].status = "failed",
                         !.ex[id].result = "failed"]
    ELSE [st EXCEPT !.ex[id].steps[i].status = "passed",
                    !.ex[id].steps[i].details = "success",
                    !.ex[id].steps[i].end_time = st.now,
                    !.ex[id].steps[i].duration_ms = TRUE,
                    !.ex[id].steps[i].screenshot = TRUE]

\* the outcome of step i once its delay has elapsed (lines 402-438)
StepOutcome(st, id, i, should_fail, pattern, draws) ==
    LET healing_result == _attempt_auto_healing(pattern, draws)
    IN  IF should_fail
        THEN IF healing_result.success
             THEN [st EXCEPT !.ex[id].steps[i].status = "passed",
                             !.ex[id].steps[i].error = TRUE,
                             !.ex[id].steps[i].details = "healed",
                             !.ex[id].steps[i].end_time = st.now,
                             !.ex[id].steps[i].duration_ms = TRUE,
                             !.ex[id].steps[i].screenshot = TRUE,
                             !.ex[id].auto_healing = healing_result]
             ELSE [st EXCEPT !.ex[id].steps[i].status = "failed",
                             !.ex[id].steps[i].error = TRUE,
                             !.ex[id].steps[i].details = "error",
                             !.ex[id].status = "failed",
                             !.ex[id].result = "failed"]
        ELSE [st EXCEPT !.ex[id].steps[i].status = "passed",
                        !.ex[id].steps[i].details = "success",
                        !.ex[id].steps[i].end_time = st.now,
                        !.ex[id].steps[i].duration_ms = TRUE,
                        !.ex[id].steps[i].screenshot = TRUE]

\* Broke without the break of line 425
Broke_never(should_fail, pattern, draws) == FALSE

\* the loop is left by break exactly when the step failed unhealed
Broke(should_fail, pattern, draws) ==
    should_fail /\ ~ _attempt_auto_healing(pattern, draws).success

\* Finalize without the append to the history
Finalize_no_history(st, id) ==
    LET st1 == [st EXCEPT
                  !.ex[id].status = IF @ = "running" THEN "completed" ELSE @,
                  !.ex[id].result = IF st.ex[id].status = "running"
                                       THEN "passed" ELSE @,
                  !.ex[id].ended = TRUE]
    IN  IF id \in st.act
        THEN [st |-> [st1 EXCEPT !.act = @ \ {id}], raised |-> FALSE]
        ELSE [st |-> st1, raised |-> TRUE]

\* lines 440-456: completion, end time, append to history, del from active.
\* raised: the del found no such key (KeyError)
Finalize(st, id) ==
    LET st1 == [st EXCEPT
                  !.ex[id].status = IF @ = "running" THEN "completed" ELSE @,
                  !.ex[id].result = IF st.ex[id].status = "running"
                                       THEN "passed" ELSE @,
                  !.ex[id].ended = TRUE,
                  !.hist = Append(@, id)]
    IN  IF id \in st.act
        THEN [st |-> [st1 EXCEPT !.act = @ \ {id}], raised |-> FALSE]
        ELSE [st |-> [st1 EXCEPT !.raised = @ \cup {id}], raised |-> TRUE]

\* what the task t does from the end of the step loop until it is suspended
\* again or returns: finalisation, queue promotion, rest of the suite
AfterLoop(st, t) ==
    LET f == Finalize(st, t.cur)
    IN  IF f.raised THEN [st |-> f.st, run |-> {}]
        ELSE LET p == _process_execution_queue(f.st)
             IN  IF p.cur # 0
                 THEN [st |-> p.st, run |-> {[cur |-> p.cur, todo |-> t.todo]}]
                 ELSE SuiteLoop(p.st, t.todo)

\* the task t resumes after the delay of its current step
Resume(st, t, should_fail, pattern, draws) ==
    LET id == t.cur
        i  == st.ex[id].current_step
        o  == StepOutcome(st, id, i, should_fail, pattern, draws)
    IN  IF Broke(should_fail, pattern, draws) THEN AfterLoop(o, t)
        ELSE IF i < Len(st.ex[id].steps)
             THEN [st |-> BeginStep(o, id, i + 1), run |-> {t}]
             ELSE AfterLoop(o, t)

----------------------------------------------------------------------------
(* Read side *)

\* get_execution_status: the status reported for an id, "not found" if none
get_execution_status(id) ==
    IF id \in active_executions THEN executions[id].status
    ELSE IF InSeq(id, execution_history) THEN executions[id].status
    ELSE "not found"

\* _assess_execution_risk, lines 949-952: the risk factor for an
\* auto-healing attempt that did not heal
AutoHealingFailuresDetected(execution) ==
    execution.auto_healing # None /\ ~ execution.auto_healing.success

NoReply == [op |-> "none", id |-> 0, success |-> FALSE, message |-> "none"]

\* no call of _attempt_auto_healing has been made
NoHealing == [id |-> 0, step |-> 0, pattern |-> "None", draws |-> <<>>,
              tried |-> <<>>, result |-> None]

----------------------------------------------------------------------------
(* MessageRouter (communication.py) *)

\* Texts are sequences of tokens, so that `pattern in text` is a search for
\* a contiguous subsequence.  The empty sequence is the empty string.
Contains(text, pattern) ==
    \E k \in 0..(Len(text) - Len(pattern)) :
        SubSeq(text, k + 1, k + Len(pattern)) = pattern

\* MessageType.value
MessageTypeValue ==
    [request |-> <<"request">>, response |-> <<"response">>,
     notification |-> <<"notification">>, broadcast |-> <<"broad", "cast">>,
     error |-> <<"error">>]

\* AgentMessage.expires_at: None, an ISO text without UTC offset ("naive"),
\* an ISO text with a trailing Z or an offset ("aware"), or a text that is
\* no ISO time ("invalid"); time is the instant the text denotes
NoExpiry == [kind |-> "None", time |-> 0]

\* _is_expired at clock reading t: the comparison of datetime.now(), which
\* has no offset, with a time that has one raises TypeError, and the bare
\* except of line 251 answers False, as it does for a text that does not
\* parse
_is_expired(message, t) ==
    CASE message.expires_at.kind = "None" -> FALSE
      [] message.expires_at.kind = "naive" -> t > message.expires_at.time
      [] message.expires_at.kind = "aware" -> FALSE
      [] message.expires_at.kind = "invalid" -> FALSE

\* _matches_pattern; payload_type is payload.get("type", "")
_matches_pattern(message, pattern) ==
    \/ pattern = <<"*">>
    \/ Contains(message.payload_type, pattern)
    \/ Contains(MessageTypeValue[message.message_type], pattern)

history_limit == 1000

\* _add_to_history
_add_to_history(history, message) ==
    LET h == Append(history, message)
    IN  IF Len(h) > history_limit
        THEN SubSeq(h, Len(h) - history_limit + 1, Len(h)) ELSE h

\* the router's mutable fields as one value
Router == [handlers |-> delivery_handlers, history |-> message_history,
           stats |-> delivery_stats]

\* what a delivery handler does when it is awaited
HandlerOutcomes == {"true", "false", "raises"}

\* send_message without the count of a recipient that has no handler
send_message_unknown_uncounted(rt, message, t, handler_outcome) ==
    IF _is_expired(message, t)
    THEN [rt |-> [rt EXCEPT !.stats.expired = @ + 1],
          returned |-> FALSE, invoked |-> FALSE, raised |-> FALSE]
    ELSE LET r1 == [rt EXCEPT !.history = _add_to_history(@, message)]
         IN  IF message.to_agent \in rt.handlers
             THEN IF handler_outcome = "true"
                  THEN [rt |-> [r1 EXCEPT !.stats.delivered = @ + 1],
                        returned |-> TRUE, invoked |-> TRUE, raised |-> FALSE]
                  ELSE [rt |-> [r1 EXCEPT !.stats.failed = @ + 1],
                        returned |-> FALSE, invoked |-> TRUE, raised |-> FALSE]
             ELSE [rt |-> r1,
                   returned |-> FALSE, invoked |-> FALSE, raised |-> FALSE]

\* send_message counting a message as delivered whose handler returned a
\* false value
send_message_falsy_delivered(rt, message, t, handler_outcome) ==
    IF _is_expired(message, t)
    THEN [rt |-> [rt EXCEPT !.stats.expired = @ + 1],
          returned |-> FALSE, invoked |-> FALSE, raised |-> FALSE]
    ELSE LET r1 == [rt EXCEPT !.history = _add_to_history(@, message)]
         IN  IF message.to_agent \in rt.handlers
             THEN IF handler_outcome = "true"
                  THEN [rt |-> [r1 EXCEPT !.stats.delivered = @ + 1],
                        returned |-> TRUE, invoked |-> TRUE, raised |-> FALSE]
                  ELSE IF handler_outcome = "false"
                  THEN [rt |-> [r1 EXCEPT !.stats.delivered = @ + 1],
                        returned |-> FALSE, invoked |-> TRUE, raised |-> FALSE]
                  ELSE [rt |-> [r1 EXCEPT !.stats.failed = @ + 1],
                        returned |-> FALSE, invoked |-> TRUE, raised |-> FALSE]
             ELSE [rt |-> [r1 EXCEPT !.stats.failed = @ + 1],
                   returned |-> FALSE, invoked |-> FALSE, raised |-> FALSE]

\* send_message: the router afterwards, the value returned, whether the
\* recipient's handler was invoked, and whether an exception left the call
\* (the whole body is inside the try of line 125, whose handler returns)
send_message(rt, message, t, handler_outcome) ==
    IF _is_expired(message, t)
    THEN [rt |-> [rt EXCEPT !.stats.expired = @ + 1],
          returned |-> FALSE, invoked |-> FALSE, raised |-> FALSE]
    ELSE LET r1 == [rt EXCEPT !.history = _add_to_history(@, message)]
         IN  IF message.to_agent \in rt.handlers
             THEN IF handler_outcome = "true"
                  THEN [rt |-> [r1 EXCEPT !.stats.delivered = @ + 1],
                        returned |-> TRUE, invoked |-> TRUE, raised |-> FALSE]
                  ELSE [rt |-> [r1 EXCEPT !.stats.failed = @ + 1],
                        returned |-> FALSE, invoked |-> TRUE, raised |-> FALSE]
             ELSE [rt |-> [r1 EXCEPT !.stats.failed = @ + 1],
                   returned |-> FALSE, invoked |-> FALSE, raised |-> FALSE]

Range(s) == {s[k] : k \in 1..Len(s)}

\* subscribers without the pattern match of line 164
subscribers_any_pattern(message) ==
    UNION {Range(subscription_patterns[pattern]) :
              pattern \in DOMAIN subscription_patterns}

\* the agents subscribed to a pattern that matches the message
subscribers(message) ==
    UNION {Range(subscription_patterns[pattern]) :
              pattern \in {p \in DOMAIN subscription_patterns :
                              _matches_pattern(message, p)}}

\* the copy broadcast_message makes for a subscriber
broadcast_msg(message, agent_id) ==
    [from_agent |-> message.from_agent, to_agent |-> agent_id,
     message_type |-> "broadcast", payload_type |-> message.payload_type,
     expires_at |-> NoExpiry]

\* the loop of broadcast_message over the subscribers in the order given:
\* the router afterwards, the result map as a set of pairs, the copies
\* passed to send_message and the agents whose handler was invoked
RECURSIVE broadcast_loop(_, _, _, _, _)
broadcast_loop(rt, message, order, t, outcomes) ==
    IF DOMAIN order = {}
    THEN [rt |-> rt, results |-> {}, copies |-> <<>>, invoked |-> <<>>]
    ELSE LET agent_id == Head(order)
         IN  IF agent_id # message.from_agent
             THEN LET r == send_message(rt, broadcast_msg(message, agent_id),
                                        t, outcomes[agent_id])
                      rest == broadcast_loop(r.rt, message, Tail(order), t,
                                             outcomes)
                  IN  [rt |-> rest.rt,
                       results |-> {<<agent_id, r.returned>>}
                                      \cup rest.results,
                       copies |-> <<broadcast_msg(message, agent_id)>>
                                      \o rest.copies,
                       invoked |-> (IF r.invoked THEN <<agent_id>> ELSE <<>>)
                                      \o rest.invoked]
             ELSE broadcast_loop(rt, message, Tail(order), t, outcomes)

\* the orders in which a set can be iterated
Orders(S) ==
    {o \in [1..Cardinality(S) -> S] : \A a \in S : \E k \in DOMAIN o : o[k] = a}

NoMessage == [from_agent |-> "none", to_agent |-> "none",
              message_type |-> "request", payload_type |-> <<>>,
              expires_at |-> NoExpiry]

NoSend == [op |-> "none", message |-> NoMessage, returned |-> FALSE,
           results |-> {}, copies |-> <<>>, invoked |-> <<>>,
           handler |-> "none", raised |-> FALSE]

RouterInit ==
    /\ delivery_handlers = {}
    /\ subscription_patterns = [p \in {} |-> <<>>]
    /\ message_history = <<>>
    /\ delivery_stats = [sent |-> 0, delivered |-> 0, failed |-> 0,
                         expired |-> 0]
    /\ sent = NoSend
    /\ calls = [made |-> 0, returned_true |-> 0]

InstallRouter(rt) ==
    /\ message_history' = rt.history
    /\ delivery_stats' = rt.stats

\* get_message_stats: the total and the counters
get_message_stats ==
    [total_messages |-> delivery_stats.sent + delivery_stats.delivered
                           + delivery_stats.failed + delivery_stats.expired,
     delivery_stats |-> delivery_stats]

\* send_message calls made so far
Sends == delivery_stats.delivered + delivery_stats.failed
            + delivery_stats.expired

register_agent(agents) ==
    \E agent_id \in agents :
        /\ delivery_handlers' = delivery_handlers \cup {agent_id}
        /\ sent' = NoSend
        /\ UNCHANGED calls
        /\ UNCHANGED <<subscription_patterns, message_history, delivery_stats>>
        /\ UNCHANGED <<agentVars, now, monitorVars>>

unregister_agent(agents) ==
    \E agent_id \in agents :
        /\ delivery_handlers' = delivery_handlers \ {agent_id}
        /\ subscription_patterns' =
              [p \in DOMAIN subscription_patterns |->
                  Remove(subscription_patterns[p], agent_id)]
        /\ sent' = NoSend
        /\ UNCHANGED calls
        /\ UNCHANGED <<message_history, delivery_stats>>
        /\ UNCHANGED <<agentVars, now, monitorVars>>

subscribe(agents, patterns) ==
    \E agent_id \in agents, message_pattern \in patterns :
        /\ LET known == IF message_pattern \in DOMAIN subscription_patterns
                        THEN subscription_patterns[message_pattern]
                        ELSE <<>>
           IN  subscription_patterns' =
                 [p \in DOMAIN subscription_patterns \cup {message_pattern} |->
                    IF p = message_pattern
                    THEN IF InSeq(agent_id, known) THEN known
                         ELSE Append(known, agent_id)
                    ELSE subscription_patterns[p]]
        /\ sent' = NoSend
        /\ UNCHANGED calls
        /\ UNCHANGED <<delivery_handlers, message_history, delivery_stats>>
        /\ UNCHANGED <<agentVars, now, monitorVars>>

unsubscribe(agents, patterns) ==
    \E agent_id \in agents, message_pattern \in patterns :
        /\ subscription_patterns' =
              [p \in DOMAIN subscription_patterns |->
                  IF p = message_pattern
                  THEN Remove(subscription_patterns[p], agent_id)
                  ELSE subscription_patterns[p]]
        /\ sent' = NoSend
        /\ UNCHANGED calls
        /\ UNCHANGED <<delivery_handlers, message_history, delivery_stats>>
        /\ UNCHANGED <<agentVars, now, monitorVars>>

\* a call of send_message from outside the router
SendMessage(messages, maxSends) ==
    \E message \in messages, handler_outcome \in HandlerOutcomes :
        /\ Sends < maxSends
        /\ LET r == send_message(Router, message, now, handler_outcome)
           IN  /\ InstallRouter(r.rt)
               /\ sent' = [op |-> "send", message |-> message,
                           returned |-> r.returned, results |-> {},
                           copies |-> <<>>,
                           invoked |-> IF r.invoked
                                          THEN <<message.to_agent>> ELSE <<>>,
                           handler |-> IF r.invoked
                                          THEN handler_outcome ELSE "none",
                           raised |-> r.raised]
               /\ calls' = [made |-> calls.made + 1,
                            returned_true |-> calls.returned_true
                                + (IF r.returned THEN 1 ELSE 0)]
        /\ UNCHANGED <<delivery_handlers, subscription_patterns>>
        /\ UNCHANGED <<agentVars, now, monitorVars>>

\* a call of broadcast_message
BroadcastMessage(messages, maxSends) ==
    \E message \in messages :
      LET found == subscribers(message)
      IN  /\ Sends + Cardinality(found \ {message.from_agent}) <= maxSends
          /\ \E order \in Orders(found) :
               \E outcomes \in [found -> HandlerOutcomes] :
                 LET r == broadcast_loop(Router, message, order, now, outcomes)
                 IN  /\ InstallRouter(r.rt)
                     /\ sent' = [op |-> "broadcast", message |-> message,
                                 returned |-> FALSE, results |-> r.results,
                                 copies |-> r.copies, invoked |-> r.invoked,
                                 handler |-> "none", raised |-> FALSE]
                     /\ calls' = [made |-> calls.made + Len(r.copies),
                                  returned_true |-> calls.returned_true
                                      + Cardinality({x \in r.results : x[2]})]
          /\ UNCHANGED <<delivery_handlers, subscription_patterns>>
          /\ UNCHANGED <<agentVars, now, monitorVars>>

----------------------------------------------------------------------------
(* AgentMonitor (agent_monitor.py).  Every public method runs as a whole   *)
(* while it holds self.lock; a timer fires in a thread of its own.         *)

max_history_size == 1000

\* the entries get_real_time_state returns of each history
recent_limit == 20

\* dict[k] = v
Put(f, k, v) == [x \in DOMAIN f \cup {k} |-> IF x = k THEN v ELSE f[x]]

\* AgentMetrics(agent_id)
NewMetrics == [total_messages_sent |-> 0, total_messages_received |-> 0,
               current_state |-> "idle", error_count |-> 0]

\* AgentActivity(agent_id, timestamp, activity_type, ...)
AgentActivity(agent_id, activity_type, t) ==
    [agent_id |-> agent_id, activity_type |-> activity_type, timestamp |-> t]

\* MessageFlow(from_agent, to_agent, timestamp, ...)
MessageFlow(from_agent, to_agent, t) ==
    [from_agent |-> from_agent, to_agent |-> to_agent, timestamp |-> t]

\* the monitor's mutable fields as one value
Monitor == [states |-> agent_states, metrics |-> agent_metrics,
            relationships |-> agent_relationships, flows |-> message_flows,
            activities |-> activity_history, timers |-> timers]

\* _update_agent_state
_update_agent_state(m, agent_id, new_state) ==
    [m EXCEPT !.states = Put(@, agent_id, new_state),
              !.metrics = IF agent_id \in DOMAIN @
                          THEN [@ EXCEPT ![agent_id].current_state = new_state]
                          ELSE @]

\* self.agent_metrics[agent_id] is created if it is missing
WithMetrics(m, agent_id) ==
    IF agent_id \in DOMAIN m.metrics THEN m
    ELSE [m EXCEPT !.metrics = Put(@, agent_id, NewMetrics)]

\* self.agent_relationships[a].add(b) on the defaultdict(set)
AddPeer(m, a, b) ==
    [m EXCEPT !.relationships =
        Put(@, a, (IF a \in DOMAIN @ THEN @[a] ELSE {}) \cup {b})]

\* deque(maxlen=max_history_size).append
DequeAppend(d, x) ==
    LET a == Append(d, x)
    IN  IF Len(a) > max_history_size THEN Tail(a) ELSE a

\* self.activity_history.append(activity)
LogActivity(m, activity) ==
    [m EXCEPT !.activities = DequeAppend(@, activity)]

\* LastN taking the oldest entries
LastN_oldest(d, n) ==
    IF Len(d) > n THEN SubSeq(d, 1, n) ELSE d

\* list(d)[-n:]
LastN(d, n) ==
    IF Len(d) > n THEN SubSeq(d, Len(d) - n + 1, Len(d)) ELSE d

\* threading.Timer(...).start() for agent_id
StartTimer(m, agent_id) ==
    [m EXCEPT !.timers = Put(@, agent_id,
                             (IF agent_id \in DOMAIN @ THEN @[agent_id] ELSE 0)
                                 + 1)]

\* timers started and not yet fired
PendingTimers ==
    LET RECURSIVE Sum(_)
        Sum(S) == IF S = {} THEN 0
                  ELSE LET a == CHOOSE x \in S : TRUE
                       IN  timers[a] + Sum(S \ {a})
    IN  Sum(DOMAIN timers)

\* _get_message_count_between
_get_message_count_between(agent1, agent2) ==
    Cardinality({k \in 1..Len(message_flows) :
                    \/ /\ message_flows[k].from_agent = agent1
                       /\ message_flows[k].to_agent = agent2
                    \/ /\ message_flows[k].from_agent = agent2
                       /\ message_flows[k].to_agent = agent1})

\* get_agent_network_topology: the ids of the nodes, and the edges, one for
\* every agent of the relationship map and every peer in its set
get_agent_network_topology ==
    [nodes |-> DOMAIN agent_states,
     edges |-> UNION {{[source |-> agent_id, target |-> connected_agent,
                        message_count |->
                            _get_message_count_between(agent_id,
                                                       connected_agent)] :
                          connected_agent \in agent_relationships[agent_id]} :
                      agent_id \in DOMAIN agent_relationships}]

\* no get_real_time_state call has returned since the last logged activity
NoSnapshot == [calls |-> 0, recent_activities |-> <<>>,
               recent_message_flows |-> <<>>]

\* no thread has run a method of the monitor
NoThread == [id |-> "none", holds_lock |-> FALSE]

\* a thread that calls a public method: the body is inside `with self.lock`
Caller == [id |-> "caller", holds_lock |-> TRUE]

\* the thread of a threading.Timer: it runs the lambda of line 267 or 294,
\* which calls _update_agent_state; neither acquires self.lock
TimerThread == [id |-> "timer", holds_lock |-> FALSE]

MonitorInit ==
    /\ agent_states = [a \in {} |-> "idle"]
    /\ agent_metrics = [a \in {} |-> NewMetrics]
    /\ agent_relationships = [a \in {} |-> {}]
    /\ message_flows = <<>>
    /\ activity_history = <<>>
    /\ timers = [a \in {} |-> 0]
    /\ snapshot = NoSnapshot
    /\ thread = NoThread

InstallMonitor(m) ==
    /\ agent_states' = m.states
    /\ agent_metrics' = m.metrics
    /\ agent_relationships' = m.relationships
    /\ message_flows' = m.flows
    /\ activity_history' = m.activities
    /\ timers' = m.timers
    /\ UNCHANGED <<agentVars, now, routerVars>>

\* the end of a logging method, run by a caller under the lock
Logged(m) ==
    /\ InstallMonitor(m)
    /\ snapshot' = NoSnapshot
    /\ thread' = Caller

\* AgentMonitor.register_agent
monitor_register_agent(agents, maxActivities) ==
    \E agent_id \in agents :
        /\ Len(activity_history) < maxActivities
        /\ Logged(LogActivity([Monitor EXCEPT
                                 !.states = Put(@, agent_id, "idle"),
                                 !.metrics = Put(@, agent_id, NewMetrics)],
                              AgentActivity(agent_id, "agent_registered",
                                            now)))

\* log_message_sent without the reverse entry of line 160
log_message_sent_one_way(senders, recipients, maxLogged, maxActivities) ==
    \E from_agent \in senders, to_agent \in recipients :
        /\ Len(message_flows) < maxLogged
        /\ Len(activity_history) < maxActivities
        /\ LET m1 == _update_agent_state(Monitor, from_agent, "communicating")
               m2 == [m1 EXCEPT !.flows =
                         DequeAppend(@, MessageFlow(from_agent, to_agent,
                                                    now))]
               m3 == [WithMetrics(m2, from_agent) EXCEPT
                         !.metrics[from_agent].total_messages_sent = @ + 1]
               m4 == AddPeer(m3, from_agent, to_agent)
           IN  Logged(LogActivity(m4, AgentActivity(from_agent, "message_sent",
                                                    now)))

log_message_sent(senders, recipients, maxLogged, maxActivities) ==
    \E from_agent \in senders, to_agent \in recipients :
        /\ Len(message_flows) < maxLogged
        /\ Len(activity_history) < maxActivities
        /\ LET m1 == _update_agent_state(Monitor, from_agent, "communicating")
               m2 == [m1 EXCEPT !.flows =
                         DequeAppend(@, MessageFlow(from_agent, to_agent,
                                                    now))]
               m3 == [WithMetrics(m2, from_agent) EXCEPT
                         !.metrics[from_agent].total_messages_sent = @ + 1]
               m4 == AddPeer(m3, from_agent, to_agent)
               m5 == AddPeer(m4, to_agent, from_agent)
           IN  Logged(LogActivity(m5, AgentActivity(from_agent, "message_sent",
                                                    now)))

log_message_received(agents, maxLogged, maxActivities) ==
    \E to_agent \in agents, from_agent \in agents :
        /\ to_agent \in DOMAIN agent_metrics
              => agent_metrics[to_agent].total_messages_received < maxLogged
        /\ Len(activity_history) < maxActivities
        /\ LET m1 == _update_agent_state(Monitor, to_agent, "processing")
               m2 == [WithMetrics(m1, to_agent) EXCEPT
                         !.metrics[to_agent].total_messages_received = @ + 1]
           IN  Logged(LogActivity(m2, AgentActivity(to_agent,
                                                    "message_received", now)))

log_processing_start(agents, maxActivities) ==
    \E agent_id \in agents :
        /\ Len(activity_history) < maxActivities
        /\ Logged(LogActivity(
                    _update_agent_state(Monitor, agent_id, "processing"),
                    AgentActivity(agent_id, "processing_start", now)))

log_processing_complete(agents, maxTimers, maxActivities) ==
    \E agent_id \in agents :
        /\ PendingTimers < maxTimers
        /\ Len(activity_history) < maxActivities
        /\ Logged(StartTimer(
                    LogActivity(
                      _update_agent_state(Monitor, agent_id, "complete"),
                      AgentActivity(agent_id, "processing_complete", now)),
                    agent_id))

log_processing_error(agents, maxTimers, maxActivities) ==
    \E agent_id \in agents :
        /\ PendingTimers < maxTimers
        /\ Len(activity_history) < maxActivities
        /\ agent_id \in DOMAIN agent_metrics
              => agent_metrics[agent_id].error_count < MaxErrorCount
        /\ LET m1 == _update_agent_state(Monitor, agent_id, "error")
               m2 == IF agent_id \in DOMAIN m1.metrics
                     THEN [m1 EXCEPT !.metrics[agent_id].error_count = @ + 1]
                     ELSE m1
               m3 == LogActivity(m2, AgentActivity(agent_id,
                                                   "processing_error", now))
           IN  Logged(StartTimer(m3, agent_id))

\* a started timer fires: lambda: self._update_agent_state(agent_id, IDLE)
TimerFires ==
    \E agent_id \in DOMAIN timers :
        /\ timers[agent_id] > 0
        /\ InstallMonitor(
             [_update_agent_state(Monitor, agent_id, "idle") EXCEPT
                 !.timers[agent_id] = @ - 1])
        /\ thread' = TimerThread
        /\ UNCHANGED snapshot

\* get_real_time_state: the value returned, of which the model keeps the
\* two tails; calls counts the calls since the last logged activity
get_real_time_state(maxCalls) ==
    /\ snapshot.calls < maxCalls
    /\ snapshot' = [calls |-> snapshot.calls + 1,
                    recent_activities |-> LastN(activity_history, recent_limit),
                    recent_message_flows |-> LastN(message_flows, recent_limit)]
    /\ thread' = Caller
    /\ UNCHANGED <<agent_states, agent_metrics, agent_relationships,
                   message_flows, activity_history, timers>>
    /\ UNCHANGED <<agentVars, now, routerVars>>

----------------------------------------------------------------------------
(* Actions *)

Install(r) ==
    /\ executions' = r.ex
    /\ active_executions' = r.act
    /\ execution_queue' = r.q
    /\ execution_history' = r.hist
    /\ raised' = r.raised

Init ==
    /\ executions = <<>>
    /\ active_executions = {}
    /\ execution_queue = <<>>
    /\ execution_history = <<>>
    /\ tasks = {}
    /\ reply = NoReply
    /\ cancels = 0
    /\ failures = 0
    /\ raised = {}
    /\ healing = NoHealing
    /\ now = 1
    /\ RouterInit
    /\ MonitorInit

\* execute_single_test without the capacity test of line 262
execute_single_test_uncapped(maxExecs, inputs) ==
    \E transaction \in inputs :
        /\ Len(executions) < maxExecs
        /\ LET c == _create_test_execution(State, transaction)
               id == Len(c.ex)
           IN  /\ Install(_start_execution(c, id))
               /\ tasks' = tasks \cup {[cur |-> id, todo |-> <<>>]}
        /\ reply' = NoReply
        /\ UNCHANGED <<cancels, failures, healing, now, routerVars,
                       monitorVars>>

\* execute_single_test up to its first suspension or its return
execute_single_test(maxExecs, inputs) ==
    \E transaction \in inputs :
        /\ Len(executions) < maxExecs
        /\ LET c == _create_test_execution(State, transaction)
               id == Len(c.ex)
           IN  IF Cardinality(c.act) < max_concurrent_executions
               THEN /\ Install(_start_execution(c, id))
                    /\ tasks' = tasks \cup {[cur |-> id, todo |-> <<>>]}
               ELSE /\ Install([c EXCEPT !.q = Append(@, id)])
                    /\ tasks' = tasks
        /\ reply' = NoReply
        /\ UNCHANGED <<cancels, failures, healing, now, routerVars,
                       monitorVars>>

\* execute_test_suite up to its first suspension or its return
execute_test_suite(maxExecs, inputs) ==
    \E n \in 1..maxExecs :
      \E test_cases \in [1..n -> inputs] :
        /\ Len(executions) + n <= maxExecs
        /\ LET r == SuiteLoop(State, test_cases)
           IN  /\ Install(r.st)
               /\ tasks' = tasks \cup r.run
        /\ reply' = NoReply
        /\ UNCHANGED <<cancels, failures, healing, now, routerVars,
                       monitorVars>>

\* the delay of the current step of a task elapses and the task runs on
StepDelayElapsed(failDraws, maxFailures, healingDraws) ==
    \E t \in tasks :
      \E should_fail \in failDraws :
        \E pattern \in (IF should_fail THEN PatternDraws ELSE {"None"}),
           draws \in (IF should_fail THEN healingDraws
                                     ELSE {[k \in 1..3 |-> FALSE]}) :
        /\ \E r \in RandomDraws :
              should_fail = _should_step_fail(
                  executions[t.cur].transaction,
                  StepDescriptions(executions[t.cur].transaction)
                      [executions[t.cur].current_step],
                  executions[t.cur].current_step - 1, r)
        /\ should_fail => failures < maxFailures
        /\ failures' = IF should_fail THEN failures + 1 ELSE failures
        /\ healing' = IF should_fail
                      THEN [id |-> t.cur,
                            step |-> executions[t.cur].current_step,
                            pattern |-> pattern, draws |-> draws,
                            tried |-> strategies_tried(pattern, draws),
                            result |-> _attempt_auto_healing(pattern, draws)]
                      ELSE healing
        /\ LET r == Resume(State, t, should_fail, pattern, draws)
           IN  /\ Install(r.st)
               /\ tasks' = (tasks \ {t}) \cup r.run
        /\ reply' = NoReply
        /\ UNCHANGED <<cancels, now, routerVars, monitorVars>>

\* cancel_execution leaving the cancelled execution in the active set
cancel_execution_stays_active(maxExecs, maxCancels) ==
    \E execution_id \in 1..maxExecs :
        /\ IF InSeq(execution_id, execution_queue)
           THEN /\ cancels < maxCancels
                /\ cancels' = cancels + 1
                /\ execution_queue' = Remove(execution_queue, execution_id)
                /\ reply' = [op |-> "cancel", id |-> execution_id,
                             success |-> TRUE, message |-> "removed from queue"]
                /\ UNCHANGED <<executions, active_executions,
                               execution_history>>
           ELSE IF execution_id \in active_executions
           THEN /\ cancels < maxCancels
                /\ cancels' = cancels + 1
                /\ executions' = [executions EXCEPT
                                    ![execution_id].status = "cancelled",
                                    ![execution_id].result = "skipped",
                                    ![execution_id].ended = TRUE]
                /\ execution_history' = Append(execution_history, execution_id)
                /\ reply' = [op |-> "cancel", id |-> execution_id,
                             success |-> TRUE, message |-> "cancelled"]
                /\ UNCHANGED <<execution_queue, active_executions>>
           ELSE /\ reply' = [op |-> "cancel", id |-> execution_id,
                             success |-> FALSE, message |-> "not found"]
                /\ UNCHANGED <<executions, active_executions,
                               execution_queue, execution_history, cancels>>
        /\ UNCHANGED <<tasks, failures, raised, healing, now, routerVars,
                       monitorVars>>

\* cancel_execution reporting success for an id it does not find
cancel_execution_always_succeeds(maxExecs, maxCancels) ==
    \E execution_id \in 1..maxExecs :
        /\ IF InSeq(execution_id, execution_queue)
           THEN /\ cancels < maxCancels
                /\ cancels' = cancels + 1
                /\ execution_queue' = Remove(execution_queue, execution_id)
                /\ reply' = [op |-> "cancel", id |-> execution_id,
                             success |-> TRUE, message |-> "removed from queue"]
                /\ UNCHANGED <<executions, active_executions,
                               execution_history>>
           ELSE IF execution_id \in active_executions
           THEN /\ cancels < maxCancels
                /\ cancels' = cancels + 1
                /\ executions' = [executions EXCEPT
                                    ![execution_id].status = "cancelled",
                                    ![execution_id].result = "skipped",
                                    ![execution_id].ended = TRUE]
                /\ execution_history' = Append(execution_history, execution_id)
                /\ active_executions' = active_executions \ {execution_id}
                /\ reply' = [op |-> "cancel", id |-> execution_id,
                             success |-> TRUE,
                             message |-> "cancelled"]
                /\ UNCHANGED execution_queue
           ELSE /\ reply' = [op |-> "cancel", id |-> execution_id,
                             success |-> TRUE, message |-> "cancelled"]
                /\ UNCHANGED <<executions, active_executions,
                               execution_queue, execution_history, cancels>>
        /\ UNCHANGED <<tasks, failures, raised, healing, now, routerVars,
                       monitorVars>>

\* cancel_execution
cancel_execution(maxExecs, maxCancels) ==
    \E execution_id \in 1..maxExecs :
        /\ IF InSeq(execution_id, execution_queue)
           THEN /\ cancels < maxCancels
                /\ cancels' = cancels + 1
                /\ execution_queue' = Remove(execution_queue, execution_id)
                /\ reply' = [op |-> "cancel", id |-> execution_id,
                             success |-> TRUE, message |-> "removed from queue"]
                /\ UNCHANGED <<executions, active_executions,
                               execution_history>>
           ELSE IF execution_id \in active_executions
           THEN /\ cancels < maxCancels
                /\ cancels' = cancels + 1
                /\ executions' = [executions EXCEPT
                                    ![execution_id].status = "cancelled",
                                    ![execution_id].result = "skipped",
                                    ![execution_id].ended = TRUE]
                /\ execution_history' = Append(execution_history, execution_id)
                /\ active_executions' = active_executions \ {execution_id}
                /\ reply' = [op |-> "cancel", id |-> execution_id,
                             success |-> TRUE,
                             message |-> "cancelled"]
                /\ UNCHANGED execution_queue
           ELSE /\ reply' = [op |-> "cancel", id |-> execution_id,
                             success |-> FALSE, message |-> "not found"]
                /\ UNCHANGED <<executions, active_executions,
                               execution_queue, execution_history, cancels>>
        /\ UNCHANGED <<tasks, failures, raised, healing, now, routerVars,
                       monitorVars>>

----------------------------------------------------------------------------
(* Spec: submissions, cancellations and step events in any order *)

ExecuteSingleTest == execute_single_test(MaxExecs, TransactionInputs)
ExecuteTestSuite == execute_test_suite(MaxExecs, TransactionInputs)
StepDelay == StepDelayElapsed(BOOLEAN, MaxFailures, HealingDraws)
CancelExecution == cancel_execution(MaxExecs, MaxCancels)

Next ==
    \/ ExecuteSingleTest
    \/ ExecuteTestSuite
    \/ StepDelay
    \/ CancelExecution

Spec == Init /\ [][Next]_vars

----------------------------------------------------------------------------
(* AdmissionSpec: more submissions than the cap admits; every step passes *)

AdmitSingleTest == execute_single_test(MaxAdmitted, TransactionInputs)
AdmitTestSuite == execute_test_suite(MaxAdmitted, TransactionInputs)
StepPasses == StepDelayElapsed({FALSE}, MaxFailures, HealingDraws)
CancelAdmitted == cancel_execution(MaxAdmitted, MaxCancels)

AdmissionNext ==
    \/ AdmitSingleTest
    \/ AdmitTestSuite
    \/ StepPasses
    \/ CancelAdmitted

AdmissionSpec == Init /\ [][AdmissionNext]_vars

----------------------------------------------------------------------------
(* SuiteSpec: one suite submitted to the idle simulator *)

SubmitSuite ==
    /\ executions = <<>>
    /\ execute_test_suite(MaxSuite, TransactionInputs)

SuiteNext ==
    \/ SubmitSuite
    \/ StepDelay

SuiteSpec == Init /\ [][SuiteNext]_vars

----------------------------------------------------------------------------
(* HealSpec: one MIGO test case; every healing attempt succeeds; a step     *)
(* delay always ends (the sleep of line 469 is at most two seconds)         *)

SubmitMIGO ==
    /\ executions = <<>>
    /\ execute_single_test(Len(executions) + 1, {"MIGO"})

StepHealed ==
    StepDelayElapsed(BOOLEAN, Len(StepDescriptions("MIGO")), HealedDraws)

HealNext ==
    \/ SubmitMIGO
    \/ StepHealed

HealSpec == Init /\ [][HealNext]_vars /\ WF_vars(StepHealed)

----------------------------------------------------------------------------
(* SingleSpec: one test case of a transaction without template and profile, *)
(* run while the clock advances; any step may fail, any healing draw may    *)
(* come out either way; a step delay always ends                            *)

SubmitSingle ==
    /\ executions = <<>>
    /\ execute_single_test(Len(executions) + 1, TransactionInputs)

StepAnyOutcome == StepDelayElapsed(BOOLEAN, MaxStepFailures, AllDraws)

\* datetime.now() returns a later time than before
Tick ==
    /\ now < MaxTime
    /\ now' = now + 1
    /\ UNCHANGED <<agentVars, routerVars, monitorVars>>

SingleNext ==
    \/ SubmitSingle
    \/ StepAnyOutcome
    \/ Tick

SingleSpec == Init /\ [][SingleNext]_vars /\ WF_vars(StepAnyOutcome)

----------------------------------------------------------------------------
(* RouterSpec: agents come and go and messages with and without expiry   *)
(* are sent while the clock advances                                      *)

RegisterAgent == register_agent({"test_execution", "script_generation"})
UnregisterAgent == unregister_agent({"test_execution", "script_generation"})
Send == SendMessage(SendInputs, MaxSends)

RouterNext ==
    \/ RegisterAgent
    \/ UnregisterAgent
    \/ Send
    \/ Tick

RouterSpec == Init /\ [][RouterNext]_vars

----------------------------------------------------------------------------
(* BroadcastSpec: agents subscribe and unsubscribe, and messages are        *)
(* broadcast                                                                *)

RegisterSubscriber == register_agent({"test_execution"})
UnregisterSubscriber == unregister_agent({"test_execution"})
Subscribe == subscribe(AgentIds, PatternInputs)
Unsubscribe == unsubscribe(AgentIds, PatternInputs)
Broadcast == BroadcastMessage(BroadcastInputs, MaxCopies)

BroadcastNext ==
    \/ RegisterSubscriber
    \/ UnregisterSubscriber
    \/ Subscribe
    \/ Unsubscribe
    \/ Broadcast

BroadcastSpec == Init /\ [][BroadcastNext]_vars

----------------------------------------------------------------------------
(* StatsSpec: agents register and subscribe, and messages are sent and      *)
(* broadcast while the clock advances                                       *)

SubscribeAll == subscribe({"test_execution", "script_generation"}, {<<"*">>})
BroadcastCounted ==
    BroadcastMessage({m \in BroadcastInputs :
                         /\ m.from_agent = "test_generation"
                         /\ m.payload_type = <<>>}, MaxSends)

StatsNext ==
    \/ RegisterAgent
    \/ SubscribeAll
    \/ Send
    \/ BroadcastCounted
    \/ Tick

StatsSpec == Init /\ [][StatsNext]_vars

----------------------------------------------------------------------------
(* MonitorSpec: agents log their activity in any order and timers fire      *)

MonitorRegisterAgent ==
    monitor_register_agent({"test_execution"}, MaxActivities)
LogMessageSent ==
    log_message_sent(AgentIds, AgentIds, MaxLogged, MaxActivities)
LogMessageReceived ==
    log_message_received({"test_execution"}, MaxLogged, MaxActivities)
LogProcessingStart == log_processing_start({"test_execution"}, MaxActivities)
LogProcessingComplete ==
    log_processing_complete({"test_execution"}, MaxTimers, MaxActivities)
LogProcessingError ==
    log_processing_error({"test_execution"}, MaxTimers, MaxActivities)

MonitorNext ==
    \/ MonitorRegisterAgent
    \/ LogMessageSent
    \/ LogMessageReceived
    \/ LogProcessingStart
    \/ LogProcessingComplete
    \/ LogProcessingError
    \/ TimerFires

MonitorSpec == Init /\ [][MonitorNext]_vars

----------------------------------------------------------------------------
(* SnapshotSpec: messages are logged while the clock advances, until the    *)
(* histories are longer than what get_real_time_state returns of them, and  *)
(* the state is read                                                        *)

LogRecentMessage ==
    log_message_sent({"test_generation"}, {"test_execution"}, MaxRecent,
                     MaxRecent)
LogEarlyStart == log_processing_start({"test_execution"}, MaxStarts)
GetRealTimeState == get_real_time_state(MaxSnapshots)

SnapshotNext ==
    \/ LogRecentMessage
    \/ LogEarlyStart
    \/ GetRealTimeState
    \/ Tick

SnapshotSpec == Init /\ [][SnapshotNext]_vars

----------------------------------------------------------------------------
(* Properties *)

Ids == 1..Len(executions)

Terminal == {"completed", "failed", "cancelled"}

WithStatus(ex, status) == {id \in 1..Len(ex) : ex[id].status = status}

Min(a, b) == IF a <= b THEN a ELSE b

Max(a, b) == IF a >= b THEN a ELSE b

\* the step just taken is a successful cancel_execution(id)
Cancelled(id) ==
    reply'.op = "cancel" /\ reply'.id = id /\ reply'.success

\* C1: the number of executions whose status is running never exceeds
\* max_concurrent_executions.
C1_RunningWithinCap ==
    Cardinality(WithStatus(executions, "running")) <= max_concurrent_executions

\* more executions were submitted than the cap admits, one of them waits in
\* the queue behind running ones
C1_Witness ==
    /\ Len(executions) > max_concurrent_executions
    /\ execution_queue # <<>>
    /\ WithStatus(executions, "running") # {}

\* C2: for every execution, result is unset exactly when status is queued or
\* running, and is one of passed/failed/skipped/error exactly when status is
\* completed, failed or cancelled.
C2_ResultIffTerminal ==
    \A id \in Ids :
        /\ executions[id].status \in {"queued", "running"}
              <=> executions[id].result = "None"
        /\ executions[id].status \in Terminal
              <=> executions[id].result \in {"passed", "failed", "skipped", "error"}

\* an execution failed by an unhealed step, beside a queued one
C2_Witness ==
    /\ \E id \in Ids : /\ executions[id].status = "failed"
                       /\ executions[id].result = "failed"
    /\ \E id \in Ids : /\ executions[id].status = "queued"
                       /\ InSeq(id, execution_queue)

\* C3: in the step that admits the last of the n test cases of a suite
\* submitted to the idle simulator, min(n, cap) of its executions are running
\* and max(0, n - cap) are queued, their ids in the wait queue.
C3_SuiteAdmission ==
    [][(/\ Len(executions') > Len(executions)
        /\ \A t \in tasks' : t.todo = <<>>)
       => LET n == Len(executions')
          IN  /\ Cardinality(WithStatus(executions', "running"))
                    = Min(n, max_concurrent_executions)
              /\ Cardinality(WithStatus(executions', "queued"))
                    = Max(0, n - max_concurrent_executions)
              /\ \A id \in WithStatus(executions', "queued") :
                    InSeq(id, execution_queue')]_vars

\* C4: when a running execution completes or fails while the wait queue is
\* non-empty, the head of the queue is dequeued and is running afterwards;
\* and an id leaves the wait queue only by cancellation or by becoming
\* running.
C4_PromotedOnTermination ==
    [][/\ \A id \in Ids :
            (/\ executions[id].status = "running"
             /\ executions'[id].status \in {"completed", "failed"}
             /\ execution_queue # <<>>)
            => /\ ~ InSeq(Head(execution_queue), execution_queue')
               /\ executions'[Head(execution_queue)].status = "running"
       /\ \A k \in 1..Len(execution_queue) :
            ~ InSeq(execution_queue[k], execution_queue')
            => \/ Cancelled(execution_queue[k])
               \/ executions'[execution_queue[k]].status = "running"]_vars

\* C5: queued executions are promoted in submission order: an id that leaves
\* the wait queue without being cancelled is running afterwards, and every
\* id queued before it has left the queue as well.
C5_FifoPromotion ==
    [][\A b \in 1..Len(execution_queue) :
          (/\ ~ InSeq(execution_queue[b], execution_queue')
           /\ ~ Cancelled(execution_queue[b]))
          => /\ executions'[execution_queue[b]].status = "running"
             /\ \A a \in 1..(b - 1) :
                   ~ InSeq(execution_queue[a], execution_queue')]_vars

\* C6: right after cancel_execution removed a queued execution from the wait
\* queue, its id is not in the queue, it is not running, all its steps are
\* pending, and get_execution_status reports it as cancelled.
C6_CancelQueued ==
    (reply.op = "cancel" /\ reply.message = "removed from queue")
    => /\ ~ InSeq(reply.id, execution_queue)
       /\ executions[reply.id].status # "running"
       /\ \A i \in 1..Len(executions[reply.id].steps) :
             executions[reply.id].steps[i].status = "pending"
       /\ get_execution_status(reply.id) = "cancelled"

\* C7: cancel_execution on a running execution returns success and, in the
\* same step, sets status cancelled and result skipped, records the end time,
\* appends the execution to the history and removes it from the active set.
C7_CancelRunning ==
    [][\A id \in Ids :
          (/\ executions[id].status = "running"
           /\ reply'.op = "cancel"
           /\ reply'.id = id)
          => /\ reply'.success
             /\ executions'[id].status = "cancelled"
             /\ executions'[id].result = "skipped"
             /\ executions'[id].ended
             /\ execution_history' = Append(execution_history, id)
             /\ id \in active_executions
             /\ id \notin active_executions']_vars

\* a cancel_execution call has just cancelled an execution that had started
C7_Witness ==
    /\ reply.op = "cancel"
    /\ reply.message = "cancelled"
    /\ executions[reply.id].current_step >= 1
    /\ executions[reply.id].status = "cancelled"

\* C8: every execution is in exactly one of the active set and the history;
\* it is in the active set exactly while its status is queued or running and
\* in the history exactly once its status is completed, failed or cancelled.
C8_ActiveXorHistory ==
    \A id \in Ids :
        /\ (id \in active_executions) # InSeq(id, execution_history)
        /\ id \in active_executions
              <=> executions[id].status \in {"queued", "running"}
        /\ InSeq(id, execution_history)
              <=> executions[id].status \in Terminal

\* the history holds a completed and a cancelled execution while another
\* one is active
C8_Witness ==
    /\ \E id \in Ids : InSeq(id, execution_history)
                       /\ executions[id].status = "completed"
    /\ \E id \in Ids : InSeq(id, execution_history)
                       /\ executions[id].status = "cancelled"
    /\ active_executions # {}

\* C9: a step whose status is failed (it failed and no healing draw
\* succeeded) has its error message and code set, its execution has status
\* failed and result failed, and every later step is still pending.
C9_UnhealedFailure ==
    \A id \in Ids :
      \A i \in 1..Len(executions[id].steps) :
        executions[id].steps[i].status = "failed"
        => /\ executions[id].status = "failed"
           /\ executions[id].result = "failed"
           /\ executions[id].steps[i].error
           /\ \A j \in (i + 1)..Len(executions[id].steps) :
                 executions[id].steps[j] = PendingStep

\* a step other than the last failed unhealed
C9_Witness ==
    \E id \in Ids :
      \E i \in 1..(Len(executions[id].steps) - 1) :
        /\ executions[id].steps[i].status = "failed"
        /\ executions[id].status = "failed"

\* C10: with every healing attempt succeeding, the started execution
\* eventually is completed with result passed and all its steps passed.
C10_HealedCompletes ==
    (Len(executions) = 1)
    ~> (/\ Len(executions) = 1
        /\ executions[1].status = "completed"
        /\ executions[1].result = "passed"
        /\ \A i \in 1..Len(executions[1].steps) :
              executions[1].steps[i].status = "passed")

\* the execution completed after one of its steps had failed and was healed
C10_Witness ==
    /\ Len(executions) = 1
    /\ executions[1].status = "completed"
    /\ \E i \in 1..Len(executions[1].steps) :
          /\ executions[1].steps[i].error
          /\ executions[1].steps[i].status = "passed"

\* C11: for every finished execution, if the auto_healing record has
\* success true then the healed step it belongs to has status passed, and
\* if a step has status failed then the auto_healing record does not have
\* success true, also when an earlier step was healed.
C11_HealingMonotone ==
    \A id \in Ids :
        executions[id].ended
        => /\ executions[id].auto_healing.success
                => /\ \E i \in 1..Len(executions[id].steps) :
                         executions[id].steps[i].details = "healed"
                   /\ \A i \in 1..Len(executions[id].steps) :
                         executions[id].steps[i].details = "healed"
                         => executions[id].steps[i].status = "passed"
           /\ \A i \in 1..Len(executions[id].steps) :
                 executions[id].steps[i].status = "failed"
                 => ~ executions[id].auto_healing.success

\* C12: once a step has failed with healing exhausted, the auto_healing
\* field of its execution holds the failed healing outcome (its error
\* pattern, success false), and the risk assessment counts the unhealed
\* attempt.
C12_FailedHealingRetained ==
    \A id \in Ids :
      \A i \in 1..Len(executions[id].steps) :
        executions[id].steps[i].status = "failed"
        => /\ executions[id].auto_healing # None
           /\ ~ executions[id].auto_healing.success
           /\ executions[id].auto_healing.pattern \in PatternDraws
           /\ AutoHealingFailuresDetected(executions[id])

\* C13: for steps i < j of one execution, once step j has a start time
\* step i has an end time that is not later, and step j is pending as long
\* as step i is pending or running.
C13_StepOrder ==
    \A id \in Ids :
      \A i, j \in 1..Len(executions[id].steps) :
        i < j
        => /\ executions[id].steps[j].start_time # 0
                => /\ executions[id].steps[i].end_time # 0
                   /\ executions[id].steps[i].end_time
                         <= executions[id].steps[j].start_time
           /\ executions[id].steps[i].status \in {"pending", "running"}
                => executions[id].steps[j].status = "pending"

\* a later step is running, started at a later time than an earlier one,
\* and the clock has advanced since
C13_Witness ==
    \E id \in Ids :
      \E i, j \in 1..Len(executions[id].steps) :
        /\ i < j
        /\ executions[id].steps[j].status = "running"
        /\ executions[id].steps[i].start_time
              < executions[id].steps[i].end_time
        /\ executions[id].steps[j].start_time < now

\* C14: in every step, every execution keeps its total_steps, which is
\* the number of its steps, and has 0 <= current_step <= total_steps.
C14_CurrentStepInRange ==
    [][/\ \A id \in Ids :
            executions'[id].total_steps = executions[id].total_steps
       /\ \A id \in 1..Len(executions') :
            /\ executions'[id].total_steps = Len(executions'[id].steps)
            /\ 0 <= executions'[id].current_step
            /\ executions'[id].current_step
                  <= executions'[id].total_steps]_vars

\* one execution has run through its last step while another one has not
\* started
C14_Witness ==
    /\ \E id \in Ids :
          /\ executions[id].current_step = executions[id].total_steps
          /\ executions[id].status = "completed"
    /\ \E id \in Ids : executions[id].current_step = 0

\* C15: an execution for a transaction without step template and timing
\* profile has the 6 generic steps, runs with the default profile (medium
\* complexity, 15% baseline failure rate), raises no error, and eventually
\* has a terminal status.
C15_UnknownTransaction ==
    /\ [](\A id \in Ids :
            executions[id].transaction \notin
                DOMAIN transaction_steps \cup DOMAIN sap_transaction_complexity
            => /\ executions[id].total_steps = 6
               /\ Len(executions[id].steps) = 6
               /\ complexity(executions[id].transaction).complexity = "medium"
               /\ complexity(executions[id].transaction).failure_rate = 1500
               /\ _should_step_fail(executions[id].transaction,
                                     "Enter transaction data", 2, 2249)
               /\ ~ _should_step_fail(executions[id].transaction,
                                       "Enter transaction data", 2, 2250)
               /\ id \notin raised)
    /\ (Len(executions) = 1) ~> (/\ Len(executions) = 1
                                 /\ executions[1].status \in Terminal)

\* the execution for the unknown transaction has reached a terminal status
C15_Witness ==
    /\ Len(executions) = 1
    /\ executions[1].transaction = "ZZ99"
    /\ executions[1].total_steps = 6
    /\ executions[1].status \in Terminal
    /\ executions[1].ended

\* C16: a cancel_execution call for an id that is neither in the wait queue
\* nor in the active set returns the not-found failure and leaves the
\* active set, the queue, the history and every execution unchanged.
C16_CancelNotFound ==
    [][(/\ reply'.op = "cancel"
        /\ ~ InSeq(reply'.id, execution_queue)
        /\ reply'.id \notin active_executions)
       => /\ ~ reply'.success
          /\ reply'.message = "not found"
          /\ UNCHANGED <<executions, active_executions, execution_queue,
                         execution_history>>]_vars

\* a call for an execution that had already terminated was answered
\* not found
C16_Witness ==
    /\ reply.op = "cancel"
    /\ reply.message = "not found"
    /\ reply.id \in Ids
    /\ executions[reply.id].status \in Terminal

\* the step is a call of send_message from outside the router: every call
\* appends to the history or counts the message as expired
SendStep ==
    /\ sent'.op = "send"
    /\ <<message_history, delivery_stats>>' # <<message_history, delivery_stats>>

\* expires_at is set and denotes a time before t
InThePast(message, t) ==
    /\ message.expires_at.kind \in {"naive", "aware"}
    /\ message.expires_at.time < t

\* C17: send_message of a message whose expires_at is set and in the past
\* returns false, increments the expired counter and no other, invokes no
\* handler and leaves the message history as it was.
C17_ExpiredDropped ==
    [][(SendStep /\ InThePast(sent'.message, now))
       => /\ ~ sent'.returned
          /\ sent'.invoked = <<>>
          /\ delivery_stats' = [delivery_stats EXCEPT !.expired = @ + 1]
          /\ message_history' = message_history]_vars

\* C18: send_message of a message that is not expired, to a recipient
\* that has no handler or whose handler raises, returns false, increments
\* the failed counter by one, leaves the delivered counter, and lets no
\* exception out.
C18_FailedDelivery ==
    [][(/\ SendStep
        /\ ~ InThePast(sent'.message, now)
        /\ \/ sent'.message.to_agent \notin delivery_handlers
           \/ sent'.handler = "raises")
       => /\ ~ sent'.returned
          /\ ~ sent'.raised
          /\ delivery_stats'.failed = delivery_stats.failed + 1
          /\ delivery_stats'.delivered = delivery_stats.delivered]_vars

\* a send to an agent that had been unregistered, after a send whose
\* handler raised
C18_Witness ==
    /\ sent.op = "send"
    /\ sent.message.to_agent \notin delivery_handlers
    /\ ~ sent.returned
    /\ delivery_stats.failed >= 2
    /\ delivery_stats.delivered >= 1

\* the agents other than the sender with a subscription pattern that
\* matches the message
Recipients(message) ==
    {a \in AgentIds :
        /\ a # message.from_agent
        /\ \E p \in DOMAIN subscription_patterns :
              /\ InSeq(a, subscription_patterns[p])
              /\ p = <<"*">> \/ _matches_pattern(message, p)}

\* C19: broadcast_message sends exactly one copy to every agent with a
\* matching subscription pattern except the sender, no copy to anyone else,
\* and returns a map with one entry for each of those agents.
C19_BroadcastRecipients ==
    sent.op = "broadcast"
    => /\ \A a \in Recipients(sent.message) :
             Cardinality({k \in 1..Len(sent.copies) :
                             sent.copies[k].to_agent = a}) = 1
       /\ \A k \in 1..Len(sent.copies) :
             /\ sent.copies[k].to_agent \in Recipients(sent.message)
             /\ sent.copies[k].from_agent = sent.message.from_agent
             /\ sent.copies[k].payload_type = sent.message.payload_type
       /\ {r[1] : r \in sent.results} = Recipients(sent.message)
       /\ Cardinality(sent.results) = Cardinality(Recipients(sent.message))

\* a broadcast reached two agents while its sender was subscribed too and
\* another subscription did not match
C19_Witness ==
    /\ sent.op = "broadcast"
    /\ Cardinality(sent.results) = 2
    /\ \E p \in DOMAIN subscription_patterns :
          /\ InSeq(sent.message.from_agent, subscription_patterns[p])
          /\ _matches_pattern(sent.message, p)
    /\ \E p \in DOMAIN subscription_patterns :
          /\ subscription_patterns[p] # <<>>
          /\ ~ _matches_pattern(sent.message, p)

\* the peer set of an agent
Peers(a) ==
    IF a \in DOMAIN agent_relationships THEN agent_relationships[a] ELSE {}

\* C20: the relationship map is symmetric, and for every message logged by
\* log_message_sent the recipient is a peer of the sender and the sender a
\* peer of the recipient.
C20_RelationshipSymmetric ==
    /\ \A a, b \in AgentIds : b \in Peers(a) <=> a \in Peers(b)
    /\ \A k \in 1..Len(message_flows) :
          /\ message_flows[k].to_agent \in Peers(message_flows[k].from_agent)
          /\ message_flows[k].from_agent \in Peers(message_flows[k].to_agent)

\* two messages were logged, and one agent has two other agents as peers
C20_Witness ==
    /\ Len(message_flows) >= 2
    /\ \E a \in AgentIds : Cardinality(Peers(a) \ {a}) = 2

\* C21: once messages between two agents have been logged, the topology
\* has exactly one edge for the pair, in either direction, and its
\* message_count is the number of messages the two have exchanged.
C21_TopologyOneEdge ==
    \A a, b \in AgentIds :
        (a # b /\ _get_message_count_between(a, b) > 0)
        => LET between == {e \in get_agent_network_topology.edges :
                              {e.source, e.target} = {a, b}}
           IN  /\ Cardinality(between) = 1
               /\ \A e \in between :
                     e.message_count = _get_message_count_between(a, b)

\* the monitor's registries and histories
MonitorData == <<agent_states, agent_metrics, agent_relationships,
                 message_flows, activity_history>>

\* C22: every step that changes the monitor's agent states, metrics,
\* relationships or histories, the deferred return to idle included, is
\* taken by a thread that holds the monitor's lock.
C22_MutationsUnderLock ==
    [][MonitorData' # MonitorData => thread'.holds_lock]_vars

\* C23: a get_real_time_state call leaves the monitor's state as it is and
\* returns, of each history, its last min(20, length) entries in insertion
\* order; a second call with no activity logged in between returns the same
\* two tails.
C23_SnapshotIdempotent ==
    [][snapshot'.calls = snapshot.calls + 1
       => /\ UNCHANGED <<MonitorData, timers>>
          /\ LET ra == snapshot'.recent_activities
                 rf == snapshot'.recent_message_flows
             IN  /\ Len(ra) = Min(20, Len(activity_history))
                 /\ \A k \in 1..Len(ra) :
                       ra[k] = activity_history[Len(activity_history)
                                                   - Len(ra) + k]
                 /\ Len(rf) = Min(20, Len(message_flows))
                 /\ \A k \in 1..Len(rf) :
                       rf[k] = message_flows[Len(message_flows) - Len(rf) + k]
          /\ snapshot.calls >= 1
                => /\ snapshot'.recent_activities = snapshot.recent_activities
                   /\ snapshot'.recent_message_flows
                         = snapshot.recent_message_flows]_vars

\* the state was read twice in a row when both histories were longer than
\* 20 entries, of different lengths, and held entries of different times
C23_Witness ==
    /\ snapshot.calls = 2
    /\ Len(activity_history) > 20
    /\ Len(message_flows) > 20
    /\ Len(activity_history) # Len(message_flows)
    /\ Len(snapshot.recent_activities) = 20
    /\ activity_history[1].timestamp
          < activity_history[Len(activity_history)].timestamp
    /\ message_flows[1].timestamp < message_flows[Len(message_flows)].timestamp

\* C29: a timer that fires for an agent whose state is processing or
\* communicating leaves that state as it is.
C29_TimerKeepsBusyState ==
    [][\A a \in DOMAIN timers :
          (/\ timers'[a] < timers[a]
           /\ agent_states[a] \in {"processing", "communicating"})
          => agent_states'[a] = agent_states[a]]_vars

\* C24: once a running execution has been cancelled, none of its pending
\* steps is started, and when its driving task has gone none of its steps
\* is running.
C24_CancelStopsSteps ==
    [][\A id \in Ids :
          executions[id].status = "cancelled"
          => /\ \A i \in 1..Len(executions[id].steps) :
                   executions[id].steps[i].status = "pending"
                   => executions'[id].steps[i].status = "pending"
             /\ (\A t \in tasks' : t.cur # id)
                   => \A i \in 1..Len(executions[id].steps) :
                         executions'[id].steps[i].status # "running"]_vars

\* C25: every step whose status is passed or failed has its end time, its
\* duration and its screenshot reference set.
C25_AttemptedStepRecorded ==
    \A id \in Ids :
      \A i \in 1..Len(executions[id].steps) :
        executions[id].steps[i].status \in {"passed", "failed"}
        => /\ executions[id].steps[i].end_time # 0
           /\ executions[id].steps[i].duration_ms
           /\ executions[id].steps[i].screenshot

\* C26: a healing attempt is made in exactly the steps in which a step
\* draw fails, for the step that was running; it draws for the strategies
\* of the pattern in descending success-rate order up to the first draw that
\* succeeds, returns success with that strategy's action, and returns
\* failure with manual_intervention_required exactly when it has drawn for
\* every strategy and every draw failed.
C26_HealingOnceInRateOrder ==
    [][/\ healing' # healing <=> failures' = failures + 1
       /\ healing' # healing
          => LET h == healing'
                 all == error_patterns[h.pattern]
                 n == Len(h.tried)
             IN  /\ executions[h.id].steps[h.step].status = "running"
                 /\ executions'[h.id].steps[h.step].error
                 /\ n >= 1 /\ n <= Len(all)
                 /\ \A k \in 1..n : \E j \in 1..Len(all) : h.tried[k] = all[j]
                 /\ \A j, k \in 1..n :
                       j < k => /\ h.tried[j] # h.tried[k]
                                /\ h.tried[j].success_rate
                                      >= h.tried[k].success_rate
                 /\ \A j \in 1..Len(all) :
                       (\A k \in 1..n : h.tried[k] # all[j])
                       => all[j].success_rate <= h.tried[n].success_rate
                 /\ \A k \in 1..(n - 1) : ~ h.draws[k]
                 /\ h.result.success <=> h.draws[n]
                 /\ h.result.success => h.result.action = h.tried[n].action
                 /\ ~ h.result.success
                       <=> (n = Len(all) /\ \A k \in 1..n : ~ h.draws[k])
                 /\ ~ h.result.success
                       => h.result.action = "manual_intervention_required"]_vars

\* the second strategy in rate order healed a step after the first one's
\* draw had failed, and the third one's draw would have succeeded too
C26_Witness ==
    /\ healing.id \in Ids
    /\ Len(healing.tried) = 2
    /\ healing.result.success
    /\ healing.result.action = "retry_with_alternative_approver"
    /\ healing.draws[3]
    /\ executions[healing.id].steps[healing.step].status = "passed"

\* how often an id is in a list
Count(s, x) == Cardinality({k \in 1..Len(s) : s[k] = x})

\* C27: an execution whose status is completed, failed or cancelled keeps
\* its status and its result in every later step, stays in the history
\* exactly once, and its driving task ends without an exception.
C27_TerminalAbsorbing ==
    [][\A id \in Ids :
          executions[id].status \in Terminal
          => /\ executions'[id].status = executions[id].status
             /\ executions'[id].result = executions[id].result
             /\ Count(execution_history', id) = 1
             /\ id \notin raised']_vars

\* C28: an execution id is in the wait queue exactly when the execution is
\* in the active set with status queued.
C28_QueueMatchesActive ==
    \A id \in Ids :
        InSeq(id, execution_queue)
        <=> (id \in active_executions /\ executions[id].status = "queued")

\* C30: every step increases delivered + failed + expired by the number of
\* send_message calls made in it and leaves the sent counter alone; a single
\* call increases exactly one of the three by one; so the total of
\* get_message_stats is the number of calls made, and delivered is the
\* number of calls that returned a true value.
C30_OneCounterPerCall ==
    /\ [][/\ delivery_stats'.sent = delivery_stats.sent
          /\ calls'.made = calls.made + 1
             => \E c \in {"delivered", "failed", "expired"} :
                   delivery_stats' = [delivery_stats EXCEPT ![c] = @ + 1]]_vars
    /\ [](/\ get_message_stats.total_messages = calls.made
          /\ delivery_stats.delivered + delivery_stats.failed
                + delivery_stats.expired = calls.made
          /\ delivery_stats.delivered = calls.returned_true)

\* a message was delivered, one failed, and one had expired, after sends
\* and a broadcast
C30_Witness ==
    /\ delivery_stats.delivered >= 1
    /\ delivery_stats.failed >= 1
    /\ delivery_stats.expired >= 1
    /\ calls.made = 3
    /\ sent.op = "broadcast"
    /\ sent.copies # <<>>

====
